---- MODULE Spec2Model ----
(***************************************************************************)
(* Model of the Telegram front-end in src/main.py: the per-user handlers   *)
(* (chat_message, rerun_command, clear_command, token_command), the reply  *)
(* flow respond() with its nested maybe_edit(), and the streaming adapter  *)
(* complete_chat().  A text is a sequence of one-character strings.  Each  *)
(* action is the code that runs between two awaits of one handler.         *)
(***************************************************************************)
EXTENDS Integers, Sequences, FiniteSets, TLC

VARIABLES
    user_data,       \* context.user_data of each user: openai_api_key, messages
    openai_api_key,  \* the module-level attribute openai.api_key
    pc,              \* where each user's handler is suspended
    kind,            \* the handler that runs (or ran last) for each user
    stream,          \* the fragments completion_iter has yielded so far
    message,         \* respond's local `message`
    message_buffer,  \* respond's local `message_buffer`
    response,        \* text of the Telegram message `response` (the reply being edited)
    edits,           \* the edit_text calls of the flow: text shown before, text sent
    requests,        \* the ChatCompletion.acreate calls of the flow
    reply,           \* the last reply_text sent to each user
    outcome          \* how each user's last handler ended

vars == <<user_data, openai_api_key, pc, kind, stream, message, message_buffer,
          response, edits, requests, reply, outcome>>

(* ---------------------------- bounds ---------------------------------- *)

MaxFrags == 3      \* fragments per stream in the single-flow specification
MaxHistory == 3    \* stored turns per user in the two-user specification

(* ---------------------------- texts ----------------------------------- *)

Users == {"u1", "u2"}
Token == [u \in Users |-> IF u = "u1" THEN "k1" ELSE "k2"]
None == "None"

RECURSIVE Rep(_, _)
Rep(c, n) == IF n = 0 THEN <<>> ELSE Append(Rep(c, n - 1), c)

Whitespace == {" ", "\n"}

Placeholder == <<".", ".", ".">>
NoMessage == <<"<", "n", "o", "n", "e", ">">>

KeyInstruction == "Please set the OpenAI API key using the /token OPENAI_API_KEY command."
NothingToRerun == "Nothing to rerun."
ChatCleared == "Chat cleared."
SetTokenTo == "Set token to"
Dots == "..."

UserText == <<"q">>

\* Fragments of the single-flow specification: an empty delta, white space,
\* short texts, the placeholder's own text, and texts that reach or pass the
\* flush threshold alone or in pairs.
Fragments ==
    { <<>>, <<" ">>, <<"a">>, Placeholder,
      Rep("a", 15) \o <<"\n">>, Rep(" ", 31), <<" ">> \o Rep("b", 30) }

\* Fragments of the two-user specification, by position in the stream: one
\* that passes the flush threshold alone, then a short tail.
Chunks == << { Rep("a", 31) }, { <<"a">> } >>

Threshold == 30

RECURSIVE Concat(_)
Concat(fs) == IF fs = <<>> THEN <<>> ELSE Head(fs) \o Concat(Tail(fs))

RECURSIVE FirstInk(_, _)
FirstInk(s, i) ==
    IF i > Len(s) THEN i
    ELSE IF s[i] \in Whitespace THEN FirstInk(s, i + 1) ELSE i

RECURSIVE LastInk(_, _)
LastInk(s, i) ==
    IF i < 1 THEN i
    ELSE IF s[i] \in Whitespace THEN LastInk(s, i - 1) ELSE i

\* str.strip(): the text without its leading and trailing white space.
Strip(s) == SubSeq(s, FirstInk(s, 1), LastInk(s, Len(s)))

IsPrefix(s, t) == Len(s) <= Len(t) /\ SubSeq(t, 1, Len(s)) = s

CeilDiv(n, d) == (n + d - 1) \div d

(* ---------------------------- respond --------------------------------- *)

HasKeyAlways(u) == TRUE

\* "openai_api_key" in context.user_data
HasKey(u) == user_data[u].openai_api_key # None

FlushDueEveryFragment(buf) == Len(buf) > 0

\* len(message_buffer) > 30
FlushDue(buf) == Len(buf) > Threshold

MaybeEditMessageDropsShown(msg, buf) == buf

\* message += message_buffer
MaybeEditMessage(msg, buf) == msg \o buf

ShouldEditWhenSame(stripped, prev) == stripped # <<>> /\ stripped = prev

\* stripped_message != "" and stripped_message != prev_message
ShouldEdit(stripped, prev) == stripped # <<>> /\ stripped # prev

\* maybe_edit(): the new locals, whether edit_text is called, and with what.
maybe_edit(msg, buf) ==
    LET prev_message == Strip(msg)
        msg2 == MaybeEditMessage(msg, buf)
        stripped_message == Strip(msg2)
    IN  [message |-> msg2,
         message_buffer |-> <<>>,
         edit |-> ShouldEdit(stripped_message, prev_message),
         text |-> stripped_message]

RespondReturnStripped(msg) == Strip(msg)

\* return message
RespondReturn(msg) == msg

Turn(role, content) == [role |-> role, content |-> content]

OnStreamErrorRecordsPartial(msgs, msg) == Append(msgs, Turn("assistant", msg))

\* An exception raised inside respond() leaves chat_message / rerun_command
\* before their messages.append(...): the stored history stays as it is.
OnStreamError(msgs, msg) == msgs

\* messages.append({"role": "assistant", "content": response})
\* context.user_data["messages"] = messages
RecordReply(u, msg) ==
    [user_data EXCEPT ![u].messages =
        Append(@, Turn("assistant", RespondReturn(msg)))]

RerunPopRole == "bot"

\* while len(messages) > 0 and messages[-1]["role"] == "bot": messages.pop()
RECURSIVE PopTrailing(_)
PopTrailing(msgs) ==
    IF Len(msgs) > 0 /\ msgs[Len(msgs)].role = RerunPopRole
    THEN PopTrailing(SubSeq(msgs, 1, Len(msgs) - 1))
    ELSE msgs

\* respond() from its entry to its first await, for user u whose history
\* (already stored in user_data') is the argument `messages`.
respond(u, k) ==
    /\ kind' = [kind EXCEPT ![u] = k]
    /\ stream' = [stream EXCEPT ![u] = <<>>]
    /\ message' = [message EXCEPT ![u] = <<>>]
    /\ message_buffer' = [message_buffer EXCEPT ![u] = <<>>]
    /\ edits' = [edits EXCEPT ![u] = <<>>]
    /\ requests' = [requests EXCEPT ![u] = <<>>]
    /\ IF HasKey(u)
       THEN /\ openai_api_key' = user_data[u].openai_api_key
            /\ reply' = [reply EXCEPT ![u] = Dots]
            /\ response' = [response EXCEPT ![u] = Placeholder]
            /\ outcome' = [outcome EXCEPT ![u] = "running"]
            /\ pc' = [pc EXCEPT ![u] = "placeholder"]
       ELSE /\ reply' = [reply EXCEPT ![u] = KeyInstruction]
            /\ response' = [response EXCEPT ![u] = NoMessage]
            /\ outcome' = [outcome EXCEPT ![u] = "no_key"]
            /\ pc' = [pc EXCEPT ![u] = "idle"]
            /\ UNCHANGED openai_api_key

(* ---------------------------- handlers -------------------------------- *)

chat_message(u, text) ==
    /\ pc[u] = "idle"
    /\ user_data' = [user_data EXCEPT ![u].messages = Append(@, Turn("user", text))]
    /\ respond(u, "chat")

rerun_command(u) ==
    /\ pc[u] = "idle"
    /\ LET messages == PopTrailing(user_data[u].messages)
       IN  /\ user_data' = [user_data EXCEPT ![u].messages = messages]
           /\ IF Len(messages) = 0
              THEN /\ reply' = [reply EXCEPT ![u] = NothingToRerun]
                   /\ kind' = [kind EXCEPT ![u] = "rerun"]
                   /\ outcome' = [outcome EXCEPT ![u] = "nothing"]
                   /\ UNCHANGED <<openai_api_key, pc, stream, message,
                                  message_buffer, response, edits, requests>>
              ELSE respond(u, "rerun")

clear_command(u) ==
    /\ pc[u] = "idle"
    /\ user_data' = [user_data EXCEPT ![u].messages = <<>>]
    /\ reply' = [reply EXCEPT ![u] = ChatCleared]
    /\ kind' = [kind EXCEPT ![u] = "clear"]
    /\ outcome' = [outcome EXCEPT ![u] = "done"]
    /\ UNCHANGED <<openai_api_key, pc, stream, message, message_buffer,
                   response, edits, requests>>

token_command(u, k) ==
    /\ pc[u] = "idle"
    /\ user_data' = [user_data EXCEPT ![u].openai_api_key = k]
    /\ reply' = [reply EXCEPT ![u] = SetTokenTo]
    /\ kind' = [kind EXCEPT ![u] = "token"]
    /\ outcome' = [outcome EXCEPT ![u] = "done"]
    /\ UNCHANGED <<openai_api_key, pc, stream, message, message_buffer,
                   response, edits, requests>>

(* ---------------------------- the stream ------------------------------ *)

\* reply_text("...") has returned; `async for` starts complete_chat, which
\* awaits ChatCompletion.acreate(messages=..., stream=True): the request goes
\* out under the api key openai.api_key holds at that moment.
complete_chat(u) ==
    /\ pc[u] = "placeholder"
    /\ requests' = [requests EXCEPT ![u] =
          Append(@, [key |-> openai_api_key, messages |-> user_data[u].messages])]
    /\ pc' = [pc EXCEPT ![u] = "streaming"]
    /\ UNCHANGED <<user_data, openai_api_key, kind, stream, message,
                   message_buffer, response, edits, reply, outcome>>

\* One turn of `async for completion in completion_iter`.
StreamNext(u, completion) ==
    /\ pc[u] = "streaming"
    /\ stream' = [stream EXCEPT ![u] = Append(@, completion)]
    /\ LET buf == message_buffer[u] \o completion
           r == maybe_edit(message[u], buf)
       IN  IF FlushDue(buf)
           THEN /\ message' = [message EXCEPT ![u] = r.message]
                /\ message_buffer' = [message_buffer EXCEPT ![u] = r.message_buffer]
                /\ IF r.edit
                   THEN /\ edits' = [edits EXCEPT ![u] =
                               Append(@, [shown |-> response[u], text |-> r.text])]
                        /\ response' = [response EXCEPT ![u] = r.text]
                        /\ pc' = [pc EXCEPT ![u] = "edit"]
                   ELSE UNCHANGED <<edits, response, pc>>
           ELSE /\ message_buffer' = [message_buffer EXCEPT ![u] = buf]
                /\ UNCHANGED <<message, edits, response, pc>>
    /\ UNCHANGED <<user_data, openai_api_key, kind, requests, reply, outcome>>

\* respond() returns `message`; the handler appends the assistant turn.
Return(u) ==
    /\ user_data' = RecordReply(u, message'[u])
    /\ outcome' = [outcome EXCEPT ![u] = "returned"]
    /\ pc' = [pc EXCEPT ![u] = "idle"]

\* The stream is exhausted: the final maybe_edit(), then the return.
StreamEnd(u) ==
    /\ pc[u] = "streaming"
    /\ LET r == maybe_edit(message[u], message_buffer[u])
       IN  /\ message' = [message EXCEPT ![u] = r.message]
           /\ message_buffer' = [message_buffer EXCEPT ![u] = r.message_buffer]
           /\ IF r.edit
              THEN /\ edits' = [edits EXCEPT ![u] =
                          Append(@, [shown |-> response[u], text |-> r.text])]
                   /\ response' = [response EXCEPT ![u] = r.text]
                   /\ pc' = [pc EXCEPT ![u] = "final_edit"]
                   /\ UNCHANGED <<user_data, outcome>>
              ELSE /\ UNCHANGED <<edits, response>>
                   /\ Return(u)
    /\ UNCHANGED <<openai_api_key, kind, stream, requests, reply>>

\* response.edit_text(...) has returned inside the loop.
EditDone(u) ==
    /\ pc[u] = "edit"
    /\ pc' = [pc EXCEPT ![u] = "streaming"]
    /\ UNCHANGED <<user_data, openai_api_key, kind, stream, message,
                   message_buffer, response, edits, requests, reply, outcome>>

\* response.edit_text(...) of the final maybe_edit() has returned.
FinalEditDone(u) ==
    /\ pc[u] = "final_edit"
    /\ UNCHANGED message
    /\ Return(u)
    /\ UNCHANGED <<openai_api_key, kind, stream, message_buffer, response,
                   edits, requests, reply>>

\* The completion stream raises: the exception leaves respond() and the
\* handler, and error_handler logs it.
StreamError(u) ==
    /\ pc[u] = "streaming"
    /\ user_data' = [user_data EXCEPT ![u].messages = OnStreamError(@, message[u])]
    /\ outcome' = [outcome EXCEPT ![u] = "failed"]
    /\ pc' = [pc EXCEPT ![u] = "idle"]
    /\ UNCHANGED <<openai_api_key, kind, stream, message, message_buffer,
                   response, edits, requests, reply>>

(* ---------------------------- specifications -------------------------- *)

Init ==
    /\ user_data = [u \in Users |-> [openai_api_key |-> None, messages |-> <<>>]]
    /\ openai_api_key = None
    /\ pc = [u \in Users |-> "idle"]
    /\ kind = [u \in Users |-> "none"]
    /\ stream = [u \in Users |-> <<>>]
    /\ message = [u \in Users |-> <<>>]
    /\ message_buffer = [u \in Users |-> <<>>]
    /\ response = [u \in Users |-> NoMessage]
    /\ edits = [u \in Users |-> <<>>]
    /\ requests = [u \in Users |-> <<>>]
    /\ reply = [u \in Users |-> None]
    /\ outcome = [u \in Users |-> "none"]

\* Two users whose handlers interleave at their awaits; short streams.
Next ==
    \E u \in Users :
        \/ Len(user_data[u].messages) + 2 <= MaxHistory /\ chat_message(u, UserText)
        \/ Len(user_data[u].messages) + 1 <= MaxHistory /\ rerun_command(u)
        \/ clear_command(u)
        \/ user_data[u].openai_api_key = None /\ token_command(u, Token[u])
        \/ complete_chat(u)
        \/ /\ Len(stream[u]) < Len(Chunks)
           /\ \E c \in Chunks[Len(stream[u]) + 1] : StreamNext(u, c)
        \/ StreamEnd(u)
        \/ EditDone(u)
        \/ FinalEditDone(u)
        \/ StreamError(u)

Spec == Init /\ [][Next]_vars

\* One user, one reply flow at a time from a fresh history; rich streams.
NextFlow ==
    \E u \in {"u1"} :
        \/ user_data[u].messages = <<>> /\ chat_message(u, UserText)
        \/ Len(user_data[u].messages) <= 1 /\ rerun_command(u)
        \/ clear_command(u)
        \/ token_command(u, Token[u])
        \/ complete_chat(u)
        \/ \E c \in Fragments : Len(stream[u]) < MaxFrags /\ StreamNext(u, c)
        \/ StreamEnd(u)
        \/ EditDone(u)
        \/ FinalEditDone(u)
        \/ StreamError(u)

SpecFlow == Init /\ [][NextFlow]_vars

(* ---------------------------- claims ---------------------------------- *)

Active(u) == pc[u] # "idle"
Returned(u) == pc[u] = "idle" /\ outcome[u] = "returned"
Failed(u) == pc[u] = "idle" /\ outcome[u] = "failed"
History(u) == user_data[u].messages
LastTurn(u) == History(u)[Len(History(u))]
Fragmented(u) == Concat(stream[u])

\* C1 (as stated): the text respond() returns, recorded as the content of the
\* new assistant turn, equals trim(concatenation of all fragments).
C1_ReturnedTextIsTrimmed ==
    \A u \in Users :
        Returned(u) => LastTurn(u).content = Strip(Fragmented(u))

\* C1 (amended): the text respond() returns, recorded as the content of the
\* new assistant turn, is the concatenation of all fragments as they came,
\* with the white space at its ends kept.
C1_ReturnedTextIsConcatenation ==
    \A u \in Users :
        Returned(u) => LastTurn(u) = Turn("assistant", Fragmented(u))

C1_Witness ==
    \E u \in Users :
        /\ Returned(u)
        /\ Len(stream[u]) >= 2
        /\ Strip(Fragmented(u)) # <<>>
        /\ LastTurn(u).content # Strip(LastTurn(u).content)

\* C2: when respond() has consumed the stream, the reply message shows
\* trim(concatenation of all fragments) if that is non-empty; otherwise it
\* still shows the placeholder and no edit call was issued.
C2_FinalVisibleContent ==
    \A u \in Users :
        Returned(u) =>
            LET t == Strip(Fragmented(u))
            IN  IF t # <<>> THEN response[u] = t
                ELSE response[u] = Placeholder /\ edits[u] = <<>>

C2_Witness ==
    \E u \in Users :
        /\ Returned(u)
        /\ Len(edits[u]) >= 2
        /\ response[u] = Strip(Fragmented(u))
        /\ response[u] # Fragmented(u)

\* C3: no edit call carries the content the message showed just before the
\* call (the placeholder until the first edit, the last edit's content after).
C3_NoEditRepeatsVisibleContent ==
    \A u \in Users :
        \A i \in 1..Len(edits[u]) : edits[u][i].text # edits[u][i].shown

\* C4: a run issues at most ceil(L / 30) + 1 edit calls for fragments of total
\* length L, and every edit issued before the end of the stream has consumed
\* more than 30 characters of its own.
C4_EditCountBound ==
    \A u \in Users :
        /\ Len(edits[u]) <= CeilDiv(Len(Fragmented(u)), Threshold) + 1
        /\ pc[u] \in {"streaming", "edit"} =>
               Len(edits[u]) * (Threshold + 1) <= Len(Fragmented(u))

C4_Witness ==
    \E u \in Users :
        /\ Returned(u)
        /\ Len(edits[u]) = 3
        /\ Len(stream[u]) = 3

\* C5: rerun pops every trailing assistant turn, so the completion request of
\* a rerun carries a history whose last turn is a user turn, and the history
\* ends in [user, assistant] once the regenerated reply is appended.
C5_RerunRegeneratesFromUserTurn ==
    \A u \in Users :
        (kind[u] = "rerun" /\ outcome[u] \in {"running", "returned"}
                           /\ requests[u] # <<>>) =>
            LET sent == requests[u][1].messages
            IN  /\ sent[Len(sent)].role = "user"
                /\ Returned(u) =>
                       /\ LastTurn(u).role = "assistant"
                       /\ History(u)[Len(History(u)) - 1].role = "user"

\* C6: a user with no credential stored never gets past the credential check:
\* a reply attempt answers with the instruction and ends, with no placeholder
\* message, no completion request and no edit call.
C6_NoCredentialAborts ==
    \A u \in Users :
        user_data[u].openai_api_key = None =>
            /\ pc[u] = "idle"
            /\ requests[u] = <<>>
            /\ edits[u] = <<>>
            /\ response[u] = NoMessage
            /\ (kind[u] \in {"chat", "rerun"} /\ outcome[u] # "nothing") =>
                   outcome[u] = "no_key" /\ reply[u] = KeyInstruction

C6_Witness ==
    \E u \in Users :
        /\ user_data[u].openai_api_key = None
        /\ kind[u] = "rerun"
        /\ outcome[u] = "no_key"
        /\ reply[u] = KeyInstruction
        /\ \E v \in Users \ {u} : pc[v] = "streaming"

\* C7: the stored history never holds two consecutive turns of the same role.
C7_HistoryAlternates ==
    \A u \in Users :
        \A i \in 1..(Len(History(u)) - 1) :
            History(u)[i].role # History(u)[i + 1].role

\* C8: interleaved reply flows of distinct users do not interfere: a user's
\* completion request goes out under that user's own stored credential and
\* with that user's own history.
C8_OwnCredentialUsed ==
    \A u \in Users :
        (Active(u) /\ requests[u] # <<>>) =>
            /\ requests[u][1].key = user_data[u].openai_api_key
            /\ requests[u][1].messages = History(u)

\* C9 (as stated): when the completion stream fails, the error leaves
\* respond() with no retry, no assistant turn is appended, and the reply
\* message still shows the placeholder.
C9_PlaceholderLeftOnError ==
    \A u \in Users :
        Failed(u) =>
            /\ Len(requests[u]) = 1
            /\ History(u) = requests[u][1].messages
            /\ response[u] = Placeholder

\* C9 (amended): when the completion stream fails, the error leaves respond()
\* with no retry, no assistant turn is appended, and the reply message keeps
\* what it showed when the error came: the placeholder if no edit was issued,
\* else the last edit's content, the trimmed text flushed so far.
C9_ErrorLeavesLastShownText ==
    \A u \in Users :
        Failed(u) =>
            /\ Len(requests[u]) = 1
            /\ History(u) = requests[u][1].messages
            /\ IF edits[u] = <<>>
               THEN response[u] = Placeholder
               ELSE /\ response[u] = edits[u][Len(edits[u])].text
                    /\ response[u] = Strip(message[u])
                    /\ IsPrefix(message[u], Fragmented(u))

C9_Witness ==
    \E u \in Users :
        /\ Failed(u)
        /\ edits[u] # <<>>
        /\ response[u] # Placeholder
        /\ message_buffer[u] # <<>>

\* C10: each edit's content has the previous edit's content as a proper
\* prefix, and is the trimmed text of a prefix of the fragments consumed.
C10_EditsAdvance ==
    \A u \in Users :
        \A i \in 1..Len(edits[u]) :
            /\ i > 1 => /\ IsPrefix(edits[u][i - 1].text, edits[u][i].text)
                        /\ edits[u][i - 1].text # edits[u][i].text
            /\ \E n \in 0..Len(Fragmented(u)) :
                   edits[u][i].text = Strip(SubSeq(Fragmented(u), 1, n))

C10_Witness ==
    \E u \in Users :
        /\ pc[u] = "edit"
        /\ Len(edits[u]) = 2
        /\ edits[u][1].text # SubSeq(message[u], 1, Len(edits[u][1].text))

====
